---------------------------- MODULE Spec2Model ----------------------------
(***************************************************************************)
(* A model of two classes of the skrl reinforcement-learning library:      *)
(*                                                                         *)
(*   - skrl/models/torch/gaussian.py, GaussianMixin: the stochastic policy *)
(*     evaluation (act, get_entropy, get_log_std, distribution);           *)
(*   - skrl/models/jax/base.py, Model: the model state (init_state_dict,   *)
(*     act, update_parameters).                                            *)
(*                                                                         *)
(* Floating-point numbers are modelled as fixed-point numbers with three   *)
(* decimals (the integer v stands for v / One) together with the IEEE      *)
(* special values NaN, +inf and -inf.  Finite arithmetic never overflows   *)
(* in the ranges the model draws its inputs from.  The elementary          *)
(* functions (tanh, exp, log) are tabulated at three decimals and          *)
(* interpolated linearly between the knots.                                *)
(***************************************************************************)
EXTENDS Integers, Sequences, FiniteSets, TLC

(***************************************************************************)
(* Python values.  An attribute that may hold None is a sequence of length *)
(* 0 (None) or 1 (the value).                                              *)
(***************************************************************************)
None == <<>>
Some(x) == <<x>>

(***************************************************************************)
(* Floating-point values.                                                  *)
(***************************************************************************)
One == 10 * 10 * 10
Fin(v) == <<"fin", v>>
NaN == <<"nan", 0>>
PInf == <<"inf", 1>>
NInf == <<"inf", -1>>
IsFin(a) == a[1] = "fin"
IsNaN(a) == a[1] = "nan"
IsInf(a) == a[1] = "inf"
Abs(n) == IF n < 0 THEN -n ELSE n
Sgn(n) == IF n < 0 THEN -1 ELSE IF n > 0 THEN 1 ELSE 0
\* the sign of a non-NaN value
SignOf(a) == IF IsInf(a) THEN a[2] ELSE Sgn(a[2])
\* n / d rounded to the nearest integer, d > 0
RoundDiv(n, d) == Sgn(n) * ((Abs(n) + d \div 2) \div d)

FNeg(a) == IF IsNaN(a) THEN NaN ELSE <<a[1], -a[2]>>

FAdd(a, b) ==
    IF IsNaN(a) \/ IsNaN(b) THEN NaN
    ELSE IF IsInf(a) /\ IsInf(b) THEN (IF a[2] = b[2] THEN a ELSE NaN)
    ELSE IF IsInf(a) THEN a
    ELSE IF IsInf(b) THEN b
    ELSE Fin(a[2] + b[2])

FSub(a, b) == FAdd(a, FNeg(b))

\* (v * w) / One rounded, computed so that no intermediate product overflows
MulFix(v, w) ==
    LET x == Abs(v)
        y == Abs(w)
    IN  Sgn(v) * Sgn(w) * (x * (y \div One) + RoundDiv(x * (y % One), One))

FMul(a, b) ==
    IF IsNaN(a) \/ IsNaN(b) THEN NaN
    ELSE IF IsInf(a) \/ IsInf(b)
         THEN (IF SignOf(a) * SignOf(b) = 0 THEN NaN
               ELSE <<"inf", SignOf(a) * SignOf(b)>>)
    ELSE Fin(MulFix(a[2], b[2]))

\* (v * One) / w rounded, w # 0, computed so that no intermediate product overflows
DivFix(v, w) ==
    LET x == Abs(v)
        y == Abs(w)
    IN  Sgn(v) * Sgn(w) * ((x \div y) * One + RoundDiv((x % y) * One, y))

FDiv(a, b) ==
    IF IsNaN(a) \/ IsNaN(b) THEN NaN
    ELSE IF IsInf(a) THEN (IF IsInf(b) THEN NaN
                           ELSE <<"inf", a[2] * (IF b[2] < 0 THEN -1 ELSE 1)>>)
    ELSE IF IsInf(b) THEN Fin(0)
    ELSE IF b[2] = 0 THEN (IF a[2] = 0 THEN NaN ELSE <<"inf", Sgn(a[2])>>)
    ELSE Fin(DivFix(a[2], b[2]))

\* a <= b and a < b on floating-point values: false when either is NaN
FLe(a, b) ==
    /\ ~IsNaN(a)
    /\ ~IsNaN(b)
    /\ IF IsInf(a) THEN (a[2] = -1 \/ b = a)
       ELSE IF IsInf(b) THEN b[2] = 1
       ELSE a[2] <= b[2]
FLt(a, b) == FLe(a, b) /\ a # b

\* torch.clamp(x, min=lo, max=hi) on one element: min(max(x, lo), hi), NaN kept
FClamp(x, lo, hi) ==
    IF IsNaN(x) THEN NaN
    ELSE LET m == IF FLt(x, lo) THEN lo ELSE x
         IN  IF FLt(hi, m) THEN hi ELSE m

(***************************************************************************)
(* Elementary functions.                                                   *)
(***************************************************************************)
\* 1000 * tanh(j / 4), j = 0 .. 17; tanh is 1.000 to three decimals from 4.25 on
TanhTab == <<0, 245, 462, 635, 762, 848, 905, 941, 964, 978, 987, 992, 995,
             997, 998, 999, 999, 1000>>
TanhKnots == Len(TanhTab) - 1
TanhFix(v) ==
    LET x == Abs(v)
        j == (4 * x) \div One
        r == (4 * x) % One
    IN  IF j >= TanhKnots THEN Sgn(v) * One
        ELSE Sgn(v) * (TanhTab[j + 1]
                       + RoundDiv((TanhTab[j + 2] - TanhTab[j + 1]) * r, One))
\* torch.tanh on one element
Tanh(a) ==
    IF IsNaN(a) THEN NaN
    ELSE IF IsInf(a) THEN Fin(a[2] * One)
    ELSE Fin(TanhFix(a[2]))

\* 1000 * exp(j / 2 - 4), j = 0 .. 16
ExpTab == <<18, 30, 50, 82, 135, 223, 368, 607, 1000, 1649, 2718, 4482, 7389,
            12182, 20086, 33115, 54598>>
ExpLo == -4 * One
ExpHi == 4 * One
ExpFix(v) ==
    LET x == IF v < ExpLo THEN ExpLo ELSE IF v > ExpHi THEN ExpHi ELSE v
        s == 2 * (x - ExpLo)
        j == s \div One
        r == s % One
    IN  IF j + 1 >= Len(ExpTab) THEN ExpTab[Len(ExpTab)]
        ELSE ExpTab[j + 1] + RoundDiv((ExpTab[j + 2] - ExpTab[j + 1]) * r, One)
\* torch.exp on one element
Exp(a) ==
    IF IsNaN(a) THEN NaN
    ELSE IF IsInf(a) THEN (IF a[2] = 1 THEN PInf ELSE Fin(0))
    ELSE Fin(ExpFix(a[2]))

\* 1000 * ln(1 + j / 16), j = 0 .. 16
LnTab == <<0, 61, 118, 172, 223, 272, 318, 363, 405, 446, 486, 523, 560, 595,
           629, 661, 693>>
RECURSIVE Log2Floor(_)
\* the largest k with 2^k <= n, for an integer n >= 1
Log2Floor(n) == IF n < 2 THEN 0 ELSE 1 + Log2Floor(n \div 2)
\* 1000 * ln(n) for an integer n >= 1: n = 2^k * (1 + f / 16) with 0 <= f < 16
LnInt(n) ==
    LET k == Log2Floor(n)
    IN  LET p == 2 ^ k
        IN  LET f == (n - p) * 16
            IN  (k * 693147) \div One + LnTab[(f \div p) + 1]
                + ((LnTab[(f \div p) + 2] - LnTab[(f \div p) + 1]) * (f % p)) \div p
\* ln(n / unit) in fixed point for an integer n >= 0 counted in 1/unit
LnScaled(n, unit) ==
    IF n < 0 THEN NaN
    ELSE IF n = 0 THEN NInf
    ELSE Fin(LnInt(n) - LnInt(unit))
\* torch.log on one element
Log(a) ==
    IF IsNaN(a) THEN NaN
    ELSE IF IsInf(a) THEN (IF a[2] = 1 THEN PInf ELSE NaN)
    ELSE LnScaled(a[2], One)
\* torch.log1p on one element
Log1p(a) == Log(FAdd(Fin(One), a))


(***************************************************************************)
(* Tensors: a shape and the elements in row-major order.  A tensor of      *)
(* shape <<>> is a scalar.                                                 *)
(***************************************************************************)
Numel(shape) == IF Len(shape) = 0 THEN 1
                ELSE IF Len(shape) = 1 THEN shape[1]
                ELSE shape[1] * shape[2]
RECURSIVE Elements(_, _)
\* the sequence F(1), ..., F(n)
Elements(F(_), n) == IF n = 0 THEN <<>> ELSE Append(Elements(F, n - 1), F(n))
Tensor(shape, F(_)) == [shape |-> shape, data |-> Elements(F, Numel(shape))]
\* the row and the column of the i-th element of a tensor with cols columns
RowOf(i, cols) == ((i - 1) \div cols) + 1
ColOf(i, cols) == ((i - 1) % cols) + 1
\* a tensor of shape (rows, cols) whose element (b, d) is F(b, d)
Tensor2(rows, cols, F(_, _)) ==
    Tensor(<<rows, cols>>, LAMBDA i : F(RowOf(i, cols), ColOf(i, cols)))
Full(shape, v) == Tensor(shape, LAMBDA i : v)
\* tensor.dim()
Dim(t) == Len(t.shape)
\* element (b, d) of t broadcast against a two-dimensional shape
At(t, b, d) ==
    IF Dim(t) = 0 THEN t.data[1]
    ELSE IF Dim(t) = 1 THEN t.data[IF t.shape[1] = 1 THEN 1 ELSE d]
    ELSE t.data[((IF t.shape[1] = 1 THEN 1 ELSE b) - 1) * t.shape[2]
                + (IF t.shape[2] = 1 THEN 1 ELSE d)]
\* the rows and columns of the broadcast of two shapes of at most two dimensions
Max2(m, n) == IF m >= n THEN m ELSE n
Rows(shape) == IF Len(shape) = 2 THEN shape[1] ELSE 1
Cols(shape) == IF Len(shape) = 0 THEN 1 ELSE shape[Len(shape)]
BroadcastShape(s, t) ==
    IF Len(s) = 2 \/ Len(t) = 2
    THEN <<Max2(Rows(s), Rows(t)), Max2(Cols(s), Cols(t))>>
    ELSE IF Len(s) = 1 \/ Len(t) = 1 THEN <<Max2(Cols(s), Cols(t))>>
    ELSE <<>>
\* an elementwise unary operation
TMap(f(_), t) == Tensor(t.shape, LAMBDA i : f(t.data[i]))
\* an elementwise binary operation with broadcasting
TZip(f(_, _), s, t) ==
    LET shape == BroadcastShape(s.shape, t.shape)
        cols == Cols(shape)
    IN  Tensor(shape, LAMBDA i : f(At(s, RowOf(i, cols), ColOf(i, cols)),
                                   At(t, RowOf(i, cols), ColOf(i, cols))))
\* a Python number as a scalar operand
Scalar(v) == [shape |-> <<>>, data |-> <<v>>]
TAdd(s, t) == TZip(FAdd, s, t)
TSub(s, t) == TZip(FSub, s, t)
TMul(s, t) == TZip(FMul, s, t)
TDiv(s, t) == TZip(FDiv, s, t)
\* torch.isnan(t).any()
AnyNaN(t) == \E i \in DOMAIN t.data : IsNaN(t.data[i])

RECURSIVE FoldRow(_, _, _, _, _)
\* op folded over the elements (b, d .. cols) of the two-dimensional tensor t
FoldRow(op(_, _), t, b, d, acc) ==
    IF d > t.shape[2] THEN acc
    ELSE FoldRow(op, t, b, d + 1, op(acc, At(t, b, d)))
\* torch.sum / torch.prod / torch.mean (t, dim=-1) of a two-dimensional tensor
TSum(t) == Tensor(<<t.shape[1]>>, LAMBDA b : FoldRow(FAdd, t, b, 1, Fin(0)))
TProd(t) == Tensor(<<t.shape[1]>>, LAMBDA b : FoldRow(FMul, t, b, 1, Fin(One)))
TMean(t) == TDiv(TSum(t), Scalar(Fin(t.shape[2] * One)))
\* tensor.unsqueeze(-1)
Unsqueeze(t) == [shape |-> Append(t.shape, 1), data |-> t.data]
\* tensor.repeat(n, 1): the tensor, taken as two-dimensional, tiled n times
\* along its first dimension
Repeat(t, n) ==
    LET rows == Rows(t.shape)
        cols == Cols(t.shape)
    IN  Tensor2(n * rows, cols, LAMBDA b, d : t.data[((b - 1) % rows) * cols + d])

(***************************************************************************)
(* torch.distributions.Normal, with argument validation disabled           *)
(* (gaussian.py line 10): the location and the scale broadcast to a common *)
(* shape.                                                                  *)
(***************************************************************************)
Expand(t, shape) == Tensor(shape, LAMBDA i : At(t, RowOf(i, Cols(shape)), ColOf(i, Cols(shape))))
Normal(loc, scale) ==
    LET shape == BroadcastShape(loc.shape, scale.shape)
    IN  [loc |-> Expand(loc, shape), scale |-> Expand(scale, shape)]
\* log(sqrt(2 * pi)) and 0.5 + 0.5 * log(2 * pi)
LogSqrt2Pi == LnScaled(6283, One)[2] \div 2
EntropyConst == (One \div 2) + LogSqrt2Pi
\* Normal.rsample(): loc + eps * scale, eps the standard normal noise drawn
RSample(dist, eps) == TAdd(dist.loc, TMul(eps, dist.scale))
\* Normal.log_prob(value):
\*   -((value - loc) ** 2) / (2 * var) - log(scale) - log(sqrt(2 * pi))
\* on one element
LogDensity(value, loc, scale) ==
    FSub(FSub(FDiv(FNeg(FMul(FSub(value, loc), FSub(value, loc))),
                   FMul(Fin(2 * One), FMul(scale, scale))),
              Log(scale)),
         Fin(LogSqrt2Pi))
NormalLogProb(dist, value) ==
    LET shape == BroadcastShape(dist.loc.shape, value.shape)
    IN  Tensor(shape, LAMBDA i : LogDensity(At(value, RowOf(i, Cols(shape)), ColOf(i, Cols(shape))),
                                            At(dist.loc, RowOf(i, Cols(shape)), ColOf(i, Cols(shape))),
                                            At(dist.scale, RowOf(i, Cols(shape)), ColOf(i, Cols(shape)))))
\* Normal.entropy(): 0.5 + 0.5 * log(2 * pi) + log(scale)
NormalEntropy(dist) == TAdd(Scalar(Fin(EntropyConst)), TMap(Log, dist.scale))

(***************************************************************************)
(* GaussianMixin (skrl/models/torch/gaussian.py).                          *)
(***************************************************************************)
\* EPS = 1e-6, counted in units of 1 / (One * One)
EPS == 1
\* torch.finfo(y.dtype).eps: the spacing of the numbers at 1.0, in units of 1 / One
MachineEps == 1

VARIABLES
    space_given,          \* the action space as the constructor received it
    action_space,         \* the action space: [is_space, n, low, high]
    g_clip_actions,       \* self._g_clip_actions
    g_clip_actions_min,   \* self._g_clip_actions_min, None when not set
    g_clip_actions_max,   \* self._g_clip_actions_max, None when not set
    g_clip_log_std,       \* self._g_clip_log_std
    g_log_std_min,        \* self._g_log_std_min
    g_log_std_max,        \* self._g_log_std_max
    g_reduction,          \* self._g_reduction: "mean", "sum", "prod" or "none"
    g_log_std,            \* self._g_log_std, None before the first act
    g_num_samples,        \* self._g_num_samples, None before the first act
    g_distribution,       \* self._g_distribution, None before the first act
    ret                   \* the last call on the mixin: its inputs and its outcome

gvars == <<space_given, action_space, g_clip_actions, g_clip_actions_min, g_clip_actions_max,
           g_clip_log_std, g_log_std_min, g_log_std_max, g_reduction,
           g_log_std, g_num_samples, g_distribution, ret>>

\* The state of the jax Model (described with its operations below).
VARIABLES
    module_paths,   \* per model: the parameter paths its module defines
    state_dict,     \* per model: self.state_dict, None while the attribute is not set
    heap,           \* the parameter trees created so far
    reader,         \* a reader's captured reference: None or [ref, seen]
    soft_updates,   \* the number of soft updates taken
    initialized,    \* the models init_state_dict has been called on
    jret            \* the last call on a model: its arguments and its outcome

jvars == <<module_paths, state_dict, heap, reader, soft_updates, initialized, jret>>

\* What the other specifications observe.
VARIABLES
    last_returned,  \* the transient state the last act that returned left behind
    threads,        \* per thread: its position in an act call and its locals
    pure            \* the last call of a function without state: None or a record
xvars == <<last_returned, threads, pure>>

\* GaussianMixin.atanh on one element: 0.5 * (x.log1p() - (-x).log1p())
atanh(x) == FMul(Fin(One \div 2), FSub(Log1p(x), Log1p(FNeg(x))))
\* an inverse tanh without the clamp
inverse_tanh_unclamped(y) == atanh(y)
\* GaussianMixin.inverse_tanh on one element:
\*   atanh(y.clamp(min=-1.0 + eps, max=1.0 - eps))
inverse_tanh(y) == atanh(FClamp(y, Fin(-One + MachineEps), Fin(One - MachineEps)))

\* low bounds that keep their infinities
ReplaceLowKeep(low) == low
\* the low bounds with -inf replaced by -1.0 (lines 85-87)
ReplaceLow(low) == [i \in DOMAIN low |-> IF low[i] = NInf THEN Fin(-One) ELSE low[i]]
\* the high bounds with +inf replaced by 1.0 (lines 88-90)
ReplaceHigh(high) == [i \in DOMAIN high |-> IF high[i] = PInf THEN Fin(One) ELSE high[i]]
Vector(seq) == [shape |-> <<Len(seq)>>, data |-> seq]

Reductions == {"mean", "sum", "prod", "none"}

\* GaussianMixin.__init__: the state after construction
GaussianInit(space, clip_actions, clip_log_std, min_log_std, max_log_std, reduction) ==
    LET clip == clip_actions /\ space.is_space
        low == ReplaceLow(space.low)
        high == ReplaceHigh(space.high)
    IN  /\ space_given = space
        /\ g_clip_actions = clip
        /\ action_space = IF clip THEN [space EXCEPT !.low = low, !.high = high] ELSE space
        /\ g_clip_actions_min = IF clip THEN Some(Vector(low)) ELSE None
        /\ g_clip_actions_max = IF clip THEN Some(Vector(high)) ELSE None
        /\ g_clip_log_std = clip_log_std
        /\ g_log_std_min = min_log_std
        /\ g_log_std_max = max_log_std
        /\ g_log_std = None
        /\ g_num_samples = None
        /\ g_distribution = None
        /\ reduction \in Reductions
        /\ g_reduction = reduction
        /\ ret = [op |-> "__init__", raised |-> FALSE, inputs |-> None,
                  produced |-> None, constructed |-> None,
                  actions |-> None, log_prob |-> None, mean_actions |-> None]

\* a reduction that leaves the reduced log_prob without its trailing axis
ReduceKeepRank(log_prob, actions) ==
    IF g_reduction = "mean" THEN TMean(log_prob)
    ELSE IF g_reduction = "sum" THEN TSum(log_prob)
    ELSE IF g_reduction = "prod" THEN TProd(log_prob)
    ELSE log_prob
\* log_prob after lines 189-192: the reduction along the last axis, then the
\* trailing axis restored when the ranks of log_prob and actions differ
Reduce(log_prob, actions) ==
    LET reduced == IF g_reduction = "mean" THEN TMean(log_prob)
                   ELSE IF g_reduction = "sum" THEN TSum(log_prob)
                   ELSE IF g_reduction = "prod" THEN TProd(log_prob)
                   ELSE log_prob
    IN  IF Dim(reduced) # Dim(actions) THEN Unsqueeze(reduced) ELSE reduced

\* log(1 - u * u + EPS) on one element (line 175)
LogOneMinusSquare(u) ==
    IF IsNaN(u) \/ IsInf(u) THEN NaN
    ELSE LnScaled(One * One - u[2] * u[2] + EPS, One * One)

\* [lo, hi] -> [-1, 1] (line 171) and [-1, 1] -> [lo, hi] (lines 181 and 183)
\* on one element: ((scaled - lo) / (hi - lo)) * 2.0 - 1.0
Unscale(scaled, lo, hi) ==
    FSub(FMul(FDiv(FSub(scaled, lo), FSub(hi, lo)), Fin(2 * One)), Fin(One))
\* on one element: ((x + 1) / 2.0) * (hi - lo) + lo
Rescale(x, lo, hi) ==
    FAdd(FMul(FDiv(FAdd(x, Fin(One)), Fin(2 * One)), FSub(hi, lo)), lo)
\* f(x, lo, hi) on every element x of t, lo and hi the bounds of its column
WithBounds(f(_, _, _), t) ==
    Tensor(t.shape, LAMBDA i : f(t.data[i],
                                 g_clip_actions_min[1].data[ColOf(i, Cols(t.shape))],
                                 g_clip_actions_max[1].data[ColOf(i, Cols(t.shape))]))

\* a log-std that is never clamped
ClampLogStdRaw(log_std) == log_std
\* lines 146-147: the log-std that act records and builds the distribution from
ClampLogStd(log_std) ==
    IF g_clip_log_std
    THEN TMap(LAMBDA a : FClamp(a, g_log_std_min, g_log_std_max), log_std)
    ELSE log_std
\* lines 154-155: the location of the distribution
SquashMean(mean_actions) ==
    IF g_clip_actions THEN TMap(Tanh, mean_actions) ELSE mean_actions
\* a log-probability that is always taken at the fresh sample
LogProbOfSample(dist, sample, taken_actions) == NormalLogProb(dist, sample)
\* lines 165-179 and 187: the log-probability, before the reduction, of the
\* taken actions (None when the inputs carry none) or of the fresh sample
LogProb(dist, sample, taken_actions) ==
    IF g_clip_actions
    THEN IF taken_actions # None
         THEN LET unscaled_actions == WithBounds(Unscale, taken_actions[1])
              IN  TSub(NormalLogProb(dist, TMap(inverse_tanh, unscaled_actions)),
                       TMap(LogOneMinusSquare, unscaled_actions))
         ELSE NormalLogProb(dist, sample)
    ELSE NormalLogProb(dist, IF taken_actions # None THEN taken_actions[1] ELSE sample)
\* actions rescaled into the bounds without the tanh squashing
ScaleActionsNoSquash(sample) ==
    IF g_clip_actions THEN WithBounds(Rescale, sample) ELSE sample
\* line 181: the actions act produces from the fresh sample
ScaleActions(sample) ==
    IF g_clip_actions
    THEN WithBounds(Rescale, TMap(Tanh, sample))
    ELSE sample
\* line 183: the mean actions reported in the outputs
ScaleMean(mean_actions) ==
    IF g_clip_actions
    THEN WithBounds(Rescale, mean_actions)
    ELSE mean_actions
\* a check that raises only when every action is NaN
NaNCheckAll(actions) == \A i \in DOMAIN actions.data : IsNaN(actions.data[i])
\* line 197: whether act raises ValueError("NaN values found in actions")
NaNCheck(actions) == AnyNaN(actions)

\* an entropy that is zero whatever act has constructed
get_entropy_zero == [raised |-> FALSE, value |-> Some(Scalar(Fin(0)))]
\* GaussianMixin.get_entropy (lines 216-218)
get_entropy ==
    IF g_distribution = None THEN [raised |-> FALSE, value |-> Some(Scalar(Fin(0)))]
    ELSE [raised |-> FALSE, value |-> Some(NormalEntropy(g_distribution[1]))]
\* GaussianMixin.get_log_std (line 234): None has no repeat
get_log_std ==
    IF g_log_std = None THEN [raised |-> TRUE, value |-> None]
    ELSE [raised |-> FALSE, value |-> Some(Repeat(g_log_std[1], g_num_samples[1]))]
\* GaussianMixin.distribution (line 250)
distribution == g_distribution

(***************************************************************************)
(* The inputs the model draws.                                             *)
(***************************************************************************)
MaxBatch == 2
Batches == 1 .. MaxBatch
\* action spaces: Box spaces with finite and infinite bounds, and an integer
\* (not a gymnasium.Space)
Box(low, high) == [is_space |-> TRUE, n |-> Len(low), low |-> low, high |-> high]
IntSpace(n) == [is_space |-> FALSE, n |-> n, low |-> <<>>, high |-> <<>>]
ActionSpaces ==
    { Box(<<Fin(-2 * One), NInf>>, <<Fin(3 * One), PInf>>),
      Box(<<Fin(-One)>>, <<Fin(One)>>),
      IntSpace(2) }
LogStdRanges == { <<Fin(-2 * One), Fin(One)>> }
\* a tensor whose elements are v, v + step, v + 2 * step, ... in row-major order
Ramp(shape, v, step) == Tensor(shape, LAMBDA i : Fin(v + (i - 1) * step))
\* the same tensor with the last element replaced by w
WithLast(t, w) == [t EXCEPT !.data[Len(t.data)] = w]
\* what self.compute returns for b samples of d actions: the mean actions,
\* finite or with one NaN, and the log-std, one per action, finite or +inf,
\* or one per sample and action, finite or with one NaN
MeanTensors(b, d) ==
    { Ramp(<<b, d>>, -2 * One, (3 * One) \div 2),
      WithLast(Ramp(<<b, d>>, -2 * One, (3 * One) \div 2), NaN) }
LogStdTensors(b, d) ==
    { Ramp(<<d>>, -3 * One, One), Full(<<d>>, PInf),
      Ramp(<<b, d>>, -3 * One, One), WithLast(Ramp(<<b, d>>, -3 * One, One), NaN) }
\* the standard normal noise that rsample draws
NoiseTensors(b, d) == { Ramp(<<b, d>>, -One, One), Ramp(<<b, d>>, 0, One) }
\* inputs.get("taken_actions", None)
TakenActions(b, d) == { None, Some(Ramp(<<b, d>>, -One, (3 * One) \div 4)) }
ActInputs(b, d) ==
    { [mean_actions |-> m, log_std |-> ls, noise |-> eps, taken_actions |-> t] :
        m \in MeanTensors(b, d), ls \in LogStdTensors(b, d),
        eps \in NoiseTensors(b, d), t \in TakenActions(b, d) }

\* an act that restores the transient state when it raises
ActBodyRollback ==
    \E b \in Batches : \E inputs \in ActInputs(b, action_space.n) :
    \E log_std \in {ClampLogStd(inputs.log_std)} :
    \E mean_actions \in {SquashMean(inputs.mean_actions)} :
    \E scale \in {TMap(Exp, log_std)} :
    \E dist \in {Normal(mean_actions, scale)} :
    \E sample \in {RSample(dist, inputs.noise)} :
    \E density \in {LogProb(dist, sample, inputs.taken_actions)} :
    \E actions \in {ScaleActions(sample)} :
    \E log_prob \in {Reduce(density, actions)} :
    \E raised \in {NaNCheck(actions)} :
        /\ g_log_std' = IF raised THEN g_log_std ELSE Some(log_std)
        /\ g_num_samples' = IF raised THEN g_num_samples
                            ELSE Some(inputs.mean_actions.shape[1])
        /\ g_distribution' = IF raised THEN g_distribution ELSE Some(dist)
        /\ ret' = [op |-> "act", raised |-> raised, inputs |-> Some(inputs),
                   produced |-> Some(actions),
                   constructed |-> Some(dist),
                   actions |-> IF raised THEN None ELSE Some(actions),
                   log_prob |-> IF raised THEN None ELSE Some(log_prob),
                   mean_actions |-> IF raised THEN None
                                    ELSE Some(ScaleMean(mean_actions))]
        /\ UNCHANGED <<space_given, action_space, g_clip_actions, g_clip_actions_min,
                       g_clip_actions_max, g_clip_log_std, g_log_std_min,
                       g_log_std_max, g_reduction>>

\* one call of act on inputs = [mean_actions, log_std: what self.compute
\* returns; noise: the standard normal noise rsample draws; taken_actions:
\* inputs.get("taken_actions", None)].  The transient state is overwritten
\* (lines 149-158) before the NaN check (lines 197-198) raises or act returns.
ActBody ==
    \E b \in Batches : \E inputs \in ActInputs(b, action_space.n) :
    \E log_std \in {ClampLogStd(inputs.log_std)} :
    \E mean_actions \in {SquashMean(inputs.mean_actions)} :
    \E scale \in {TMap(Exp, log_std)} :
    \E dist \in {Normal(mean_actions, scale)} :
    \E sample \in {RSample(dist, inputs.noise)} :
    \E density \in {LogProb(dist, sample, inputs.taken_actions)} :
    \E actions \in {ScaleActions(sample)} :
    \E log_prob \in {Reduce(density, actions)} :
    \E raised \in {NaNCheck(actions)} :
        /\ g_log_std' = Some(log_std)
        /\ g_num_samples' = Some(inputs.mean_actions.shape[1])
        /\ g_distribution' = Some(dist)
        /\ ret' = [op |-> "act", raised |-> raised, inputs |-> Some(inputs),
                   produced |-> Some(actions),
                   constructed |-> Some(dist),
                   actions |-> IF raised THEN None ELSE Some(actions),
                   log_prob |-> IF raised THEN None ELSE Some(log_prob),
                   mean_actions |-> IF raised THEN None
                                    ELSE Some(ScaleMean(mean_actions))]
        /\ UNCHANGED <<space_given, action_space, g_clip_actions, g_clip_actions_min,
                       g_clip_actions_max, g_clip_log_std, g_log_std_min,
                       g_log_std_max, g_reduction>>

\* act, called by one caller at a time
Act == ActBody /\ UNCHANGED <<jvars, xvars>>
\* the same call, the transient state of the last call that returned kept
\* aside for comparison
ActRecorded ==
    /\ ActBody
    /\ last_returned' = IF ret'.raised THEN last_returned
                        ELSE Some([log_std |-> g_log_std', num_samples |-> g_num_samples',
                                   distribution |-> g_distribution'])
    /\ UNCHANGED <<jvars, threads, pure>>

GNext == Act
HNext == ActRecorded

(***************************************************************************)
(* Two threads that call act on the same GaussianMixin.  Nothing in act    *)
(* synchronises them: a thread may be preempted between any two            *)
(* statements, so each statement that reads or writes an attribute of the  *)
(* mixin is a step of its own.                                             *)
(***************************************************************************)
Threads == {1, 2}
Other(t) == 3 - t
\* thread t is inside act
InCall(t) == threads[t].pc \notin {"idle", "done"}
\* the attributes of the mixin that act never assigns
gconfig == <<space_given, action_space, g_clip_actions, g_clip_actions_min,
             g_clip_actions_max, g_clip_log_std, g_log_std_min, g_log_std_max,
             g_reduction>>
\* what self.compute returns to a thread for b samples of d actions
ThreadInputs(b, d) ==
    { [mean_actions |-> Ramp(<<b, d>>, -2 * One, (3 * One) \div 2),
       log_std |-> ls, taken_actions |-> t] :
        ls \in { Ramp(<<d>>, -3 * One, One), Ramp(<<b, d>>, -3 * One, One) },
        t \in TakenActions(b, d) }
\* the locals of a thread that enters act; overlapped: whether the call ran
\* while the other thread was inside act
NewThread(inputs, overlapped) ==
    [pc |-> "record_log_std", overlapped |-> overlapped, inputs |-> Some(inputs),
     log_std |-> Some(ClampLogStd(inputs.log_std)), built |-> None,
     sampled_from |-> None, scored_with |-> None, sample |-> None,
     density |-> None, raised |-> "", actions |-> None, log_prob |-> None]
\* whether two shapes of two dimensions broadcast
Broadcastable(s, t) ==
    \A k \in 1 .. 2 : s[k] = t[k] \/ s[k] = 1 \/ t[k] = 1

\* lines 143-147: compute and the clamp, on locals only
ThreadBegin(t) ==
    /\ threads[t].pc = "idle"
    /\ \E b \in Batches : \E inputs \in ThreadInputs(b, action_space.n) :
           threads' = [threads EXCEPT
                           ![t] = NewThread(inputs, InCall(Other(t))),
                           ![Other(t)] = IF InCall(Other(t))
                                         THEN [@ EXCEPT !.overlapped = TRUE] ELSE @]
    /\ UNCHANGED <<gvars, jvars, last_returned, pure>>
\* line 149
ThreadRecordLogStd(t) ==
    /\ threads[t].pc = "record_log_std"
    /\ g_log_std' = threads[t].log_std
    /\ threads' = [threads EXCEPT ![t].pc = "record_num_samples"]
    /\ UNCHANGED <<gconfig, g_num_samples, g_distribution, ret>>
    /\ UNCHANGED <<jvars, last_returned, pure>>
\* line 150
ThreadRecordNumSamples(t) ==
    /\ threads[t].pc = "record_num_samples"
    /\ g_num_samples' = Some(threads[t].inputs[1].mean_actions.shape[1])
    /\ threads' = [threads EXCEPT ![t].pc = "build"]
    /\ UNCHANGED <<gconfig, g_log_std, g_distribution, ret>>
    /\ UNCHANGED <<jvars, last_returned, pure>>
\* a build that stores the distribution only when none is stored yet
ThreadBuildOnce(t) ==
    /\ threads[t].pc = "build"
    /\ \E dist \in {Normal(SquashMean(threads[t].inputs[1].mean_actions),
                           TMap(Exp, threads[t].log_std[1]))} :
        /\ g_distribution' = IF g_distribution = None THEN Some(dist) ELSE g_distribution
        /\ threads' = [threads EXCEPT ![t].pc = "sample", ![t].built = Some(dist)]
    /\ UNCHANGED <<gconfig, g_log_std, g_num_samples, ret>>
    /\ UNCHANGED <<jvars, last_returned, pure>>
\* lines 154-158
ThreadBuild(t) ==
    /\ threads[t].pc = "build"
    /\ \E dist \in {Normal(SquashMean(threads[t].inputs[1].mean_actions),
                           TMap(Exp, threads[t].log_std[1]))} :
        /\ g_distribution' = Some(dist)
        /\ threads' = [threads EXCEPT ![t].pc = "sample", ![t].built = Some(dist)]
    /\ UNCHANGED <<gconfig, g_log_std, g_num_samples, ret>>
    /\ UNCHANGED <<jvars, last_returned, pure>>
\* the noise rsample draws for a distribution: one number per element of it
NoiseFor(dist) == Ramp(dist.loc.shape, -One, One)
\* line 161: the sample comes from the distribution the mixin holds now
ThreadSample(t) ==
    /\ threads[t].pc = "sample"
    /\ threads' = [threads EXCEPT
                       ![t].pc = "log_prob",
                       ![t].sampled_from = g_distribution,
                       ![t].sample = Some(RSample(g_distribution[1],
                                                  NoiseFor(g_distribution[1])))]
    /\ UNCHANGED <<gvars, jvars, last_returned, pure>>
\* the value lines 175, 178 and 187 evaluate the density at
ScoredValue(t) ==
    IF threads[t].inputs[1].taken_actions # None
    THEN threads[t].inputs[1].taken_actions[1]
    ELSE threads[t].sample[1]
\* lines 165-187: the density comes from the distribution the mixin holds
\* now; shapes that do not broadcast raise RuntimeError
ThreadLogProb(t) ==
    /\ threads[t].pc = "log_prob"
    /\ IF Broadcastable(g_distribution[1].loc.shape, ScoredValue(t).shape)
       THEN threads' = [threads EXCEPT
                            ![t].pc = "finish",
                            ![t].scored_with = g_distribution,
                            ![t].density = Some(LogProb(g_distribution[1],
                                                        threads[t].sample[1],
                                                        threads[t].inputs[1].taken_actions))]
       ELSE threads' = [threads EXCEPT
                            ![t].pc = "done",
                            ![t].scored_with = g_distribution,
                            ![t].raised = "RuntimeError"]
    /\ UNCHANGED <<gvars, jvars, last_returned, pure>>
\* lines 181-200: the rescaling, the reduction and the NaN check, on locals
ThreadFinish(t) ==
    /\ threads[t].pc = "finish"
    /\ \E actions \in {ScaleActions(threads[t].sample[1])} :
           threads' = [threads EXCEPT
                           ![t].pc = "done",
                           ![t].raised = IF NaNCheck(actions) THEN "ValueError" ELSE "",
                           ![t].actions = Some(actions),
                           ![t].log_prob = Some(Reduce(threads[t].density[1], actions))]
    /\ UNCHANGED <<gvars, jvars, last_returned, pure>>

CNext ==
    \E t \in Threads :
        \/ ThreadBegin(t)
        \/ ThreadRecordLogStd(t)
        \/ ThreadRecordNumSamples(t)
        \/ ThreadBuild(t)
        \/ ThreadSample(t)
        \/ ThreadLogProb(t)
        \/ ThreadFinish(t)

(***************************************************************************)
(* Model (skrl/models/jax/base.py).                                        *)
(*                                                                         *)
(* Parameter trees are immutable objects on a heap: state_dict.params      *)
(* holds a reference into it.  A tree maps the parameter paths of a module *)
(* to numbers; the numbers are counted in units of                         *)
(* 1 / PolyakDen ^ MaxSoftUpdates, so that the soft updates the model      *)
(* takes are computed exactly.                                             *)
(***************************************************************************)
\* update_parameters involves two models, self and the source
Models == {1, 2}
\* polyak is p / PolyakDen for p in 0 .. PolyakDen
PolyakDen == 2
MaxSoftUpdates == 1
MaxHeap == 3
ParamUnit == PolyakDen ^ MaxSoftUpdates
ParamPaths == {"kernel", "bias"}
\* the parameter structures of the modules: the paths self.init creates
Structures == { {"kernel", "bias"}, {"kernel"} }
\* the random keys init_state_dict is called with
Keys == 1 .. 2
\* what act is called with
ModelInputs == {"states"}

\* self.init(key, inputs, role): the initial parameters of module m
InitParams(m, key) ==
    [path \in module_paths[m] |->
        (IF path = "kernel" THEN key + m ELSE -key) * ParamUnit]
\* StateDict.create(apply_fn=..., params=...) (lines 21-23)
StateDict(apply_fn, params) == [apply_fn |-> apply_fn, params |-> params]
\* self.apply(params, inputs, role) of model m: the module's function of the
\* parameters and the inputs
Apply(m, params, inputs) == [apply_fn |-> m, params |-> params, inputs |-> inputs]

NoCall == [op |-> "__init__", m |-> 0, raised |-> "", value |-> None]

\* Model.init_state_dict (lines 98-100)
InitStateDict(m, key) ==
    /\ Len(heap) < MaxHeap
    /\ heap' = Append(heap, InitParams(m, key))
    /\ state_dict' = [state_dict EXCEPT ![m] = Some(StateDict(m, Len(heap) + 1))]
    /\ initialized' = initialized \cup {m}
    /\ jret' = [op |-> "init_state_dict", m |-> m, key |-> key, raised |-> "",
                value |-> None]
    /\ UNCHANGED <<module_paths, reader, soft_updates>>
    /\ UNCHANGED <<gvars, xvars>>

\* an act that applies the module to empty parameters when there is no state
ModelActResultDefault(m, inputs) ==
    IF state_dict[m] = None
    THEN [raised |-> "", value |-> Some(Apply(m, <<>>, inputs))]
    ELSE [raised |-> "", value |-> Some(Apply(m, heap[state_dict[m][1].params], inputs))]
\* Model.act (line 216): [raised, value]
ModelActResult(m, inputs) ==
    IF state_dict[m] = None
    THEN [raised |-> "AttributeError", value |-> None]
    ELSE [raised |-> "", value |-> Some(Apply(m, heap[state_dict[m][1].params], inputs))]
ModelAct(m, inputs) ==
    /\ jret' = [op |-> "act", m |-> m, inputs |-> inputs,
                raised |-> ModelActResult(m, inputs).raised,
                value |-> ModelActResult(m, inputs).value]
    /\ UNCHANGED <<module_paths, state_dict, heap, reader, soft_updates, initialized>>
    /\ UNCHANGED <<gvars, xvars>>

\* the interpolation with the weights of the two trees exchanged
SoftUpdateTreeSwapped(p, own, source) ==
    [path \in DOMAIN own |->
        (p * own[path] + (PolyakDen - p) * source[path]) \div PolyakDen]
\* jax.tree_util.tree_map(lambda params, model_params:
\*     polyak * model_params + (1 - polyak) * params, own, source) (lines 264-265),
\* polyak = p / PolyakDen, on trees of the same structure
SoftUpdateTree(p, own, source) ==
    [path \in DOMAIN own |->
        (p * source[path] + (PolyakDen - p) * own[path]) \div PolyakDen]

\* an update that takes the interpolation for every polyak, 1 included
UpdateParametersInterpolated(m, src, p) ==
    IF state_dict[m] = None \/ state_dict[src] = None
    THEN [raised |-> "AttributeError", state_dict |-> state_dict, heap |-> heap]
    ELSE IF DOMAIN heap[state_dict[m][1].params] # DOMAIN heap[state_dict[src][1].params]
    THEN [raised |-> "ValueError", state_dict |-> state_dict, heap |-> heap]
    ELSE [raised |-> "",
          state_dict |-> [state_dict EXCEPT ![m] =
                              Some([state_dict[m][1] EXCEPT !.params = Len(heap) + 1])],
          heap |-> Append(heap, SoftUpdateTree(p, heap[state_dict[m][1].params],
                                               heap[state_dict[src][1].params]))]
\* an update whose interpolation overwrites the tree of self in place
UpdateParametersInPlace(m, src, p) ==
    IF state_dict[m] = None \/ state_dict[src] = None
    THEN [raised |-> "AttributeError", state_dict |-> state_dict, heap |-> heap]
    ELSE IF p = PolyakDen
    THEN [raised |-> "",
          state_dict |-> [state_dict EXCEPT ![m] =
                              Some([state_dict[m][1] EXCEPT
                                        !.params = state_dict[src][1].params])],
          heap |-> heap]
    ELSE IF DOMAIN heap[state_dict[m][1].params] # DOMAIN heap[state_dict[src][1].params]
    THEN [raised |-> "ValueError", state_dict |-> state_dict, heap |-> heap]
    ELSE [raised |-> "", state_dict |-> state_dict,
          heap |-> [heap EXCEPT ![state_dict[m][1].params] =
                        SoftUpdateTree(p, heap[state_dict[m][1].params],
                                       heap[state_dict[src][1].params])]]
\* Model.update_parameters(model, polyak) on self = m, model = src,
\* polyak = p / PolyakDen (lines 257-266): [raised, state_dict, heap]
UpdateParameters(m, src, p) ==
    IF state_dict[m] = None \/ state_dict[src] = None
    THEN [raised |-> "AttributeError", state_dict |-> state_dict, heap |-> heap]
    ELSE IF p = PolyakDen
    THEN \* hard update (line 260)
         [raised |-> "",
          state_dict |-> [state_dict EXCEPT ![m] =
                              Some([state_dict[m][1] EXCEPT
                                        !.params = state_dict[src][1].params])],
          heap |-> heap]
    ELSE \* soft update (lines 264-266): tree_map raises on trees of different structure
         IF DOMAIN heap[state_dict[m][1].params] # DOMAIN heap[state_dict[src][1].params]
         THEN [raised |-> "ValueError", state_dict |-> state_dict, heap |-> heap]
         ELSE [raised |-> "",
               state_dict |-> [state_dict EXCEPT ![m] =
                                   Some([state_dict[m][1] EXCEPT !.params = Len(heap) + 1])],
               heap |-> Append(heap, SoftUpdateTree(p, heap[state_dict[m][1].params],
                                                    heap[state_dict[src][1].params]))]

\* the tree a model's state holds, None when the model has no state
ParamsOf(m) == IF state_dict[m] = None THEN None ELSE Some(heap[state_dict[m][1].params])

UpdateParametersCall(m, src, p) ==
    /\ p # PolyakDen => (soft_updates < MaxSoftUpdates /\ Len(heap) < MaxHeap)
    /\ \E r \in {UpdateParameters(m, src, p)} :
        /\ state_dict' = r.state_dict
        /\ heap' = r.heap
        /\ soft_updates' = IF p # PolyakDen /\ r.raised = "" THEN soft_updates + 1
                           ELSE soft_updates
        /\ jret' = [op |-> "update_parameters", m |-> m, src |-> src, polyak |-> p,
                    raised |-> r.raised, value |-> None,
                    own_before |-> ParamsOf(m), source_before |-> ParamsOf(src),
                    state_before |-> state_dict[m],
                    source_state_before |-> state_dict[src]]
    /\ UNCHANGED <<module_paths, reader, initialized>>
    /\ UNCHANGED <<gvars, xvars>>

\* a reader keeps a reference to the parameters of model m, and what it sees
Capture(m) ==
    /\ state_dict[m] # None
    /\ reader' = Some([ref |-> state_dict[m][1].params,
                       seen |-> heap[state_dict[m][1].params]])
    /\ UNCHANGED <<module_paths, state_dict, heap, soft_updates, initialized, jret>>
    /\ UNCHANGED <<gvars, xvars>>

JNext ==
    \/ \E m \in Models, key \in Keys : InitStateDict(m, key)
    \/ \E m \in Models, inputs \in ModelInputs : ModelAct(m, inputs)
    \/ \E m \in Models, src \in Models, p \in 0 .. PolyakDen : UpdateParametersCall(m, src, p)
    \/ \E m \in Models : Capture(m)

(***************************************************************************)
(* Model._get_space_size (skrl/models/jax/base.py): the size of a space.   *)
(*                                                                         *)
(* A space is [kind, lib, value, dims, spaces]: kind is the type of the    *)
(* Python object ("int", "float", "bool", "str", "NoneType", "tuple",      *)
(* "list", or the class of a space: "Discrete", "Box", "Dict",             *)
(* "MultiDiscrete"), lib the library of a space ("gym", "gymnasium", ""    *)
(* for other objects), value the number or Discrete.n (a float in units of *)
(* 1 / One), dims the sequence or Box.shape, spaces the children of a Dict.*)
(***************************************************************************)
Object(kind, lib, value, dims, spaces) ==
    [kind |-> kind, lib |-> lib, value |-> value, dims |-> dims, spaces |-> spaces]
\* int(size) of a float: the truncation towards zero
IntOfFloat(v) == Sgn(v) * (Abs(v) \div One)
RECURSIVE Prod(_)
\* np.prod of a sequence of integers; 1 for the empty sequence
Prod(dims) == IF dims = <<>> THEN 1 ELSE dims[1] * Prod(Tail(dims))
\* the result of a call: the size returned, or ValueError raised
Size(n) == [raised |-> FALSE, value |-> Some(n)]
NotSupported == [raised |-> TRUE, value |-> None]

RECURSIVE get_space_size_counting(_, _)
RECURSIVE SumCounting(_, _)
SumCounting(spaces, number_of_elements) ==
    IF spaces = <<>> THEN Size(0)
    ELSE LET head == get_space_size_counting(spaces[1], number_of_elements)
             rest == SumCounting(Tail(spaces), number_of_elements)
         IN  IF head.raised \/ rest.raised THEN NotSupported
             ELSE Size(head.value[1] + rest.value[1])
\* a resolver for which a Discrete space always counts its elements
get_space_size_counting(space, number_of_elements) ==
    IF space.kind = "int" THEN Size(space.value)
    ELSE IF space.kind = "float" THEN Size(IntOfFloat(space.value))
    ELSE IF space.kind \in {"tuple", "list"} THEN Size(Prod(space.dims))
    ELSE IF space.lib \in {"gym", "gymnasium"}
    THEN IF space.kind = "Discrete" THEN Size(space.value)
         ELSE IF space.kind = "Box" THEN Size(Prod(space.dims))
         ELSE IF space.kind = "Dict" THEN SumCounting(space.spaces, number_of_elements)
         ELSE NotSupported
    ELSE NotSupported

RECURSIVE get_space_size(_, _)
RECURSIVE SumSizes(_, _)
\* sum([self._get_space_size(space.spaces[key], number_of_elements) for key in
\* space.spaces]) (lines 162 and 171): an error in a child propagates
SumSizes(spaces, number_of_elements) ==
    IF spaces = <<>> THEN Size(0)
    ELSE LET head == get_space_size(spaces[1], number_of_elements)
             rest == SumSizes(Tail(spaces), number_of_elements)
         IN  IF head.raised \/ rest.raised THEN NotSupported
             ELSE Size(head.value[1] + rest.value[1])
\* Model._get_space_size (lines 151-175)
get_space_size(space, number_of_elements) ==
    IF space.kind \in {"int", "float"}
    THEN Size(IF space.kind = "float" THEN IntOfFloat(space.value) ELSE space.value)
    ELSE IF space.kind \in {"tuple", "list"} THEN Size(Prod(space.dims))
    ELSE IF space.lib \in {"gym", "gymnasium"}
    THEN IF space.kind = "Discrete"
         THEN Size(IF number_of_elements THEN space.value ELSE 1)
         ELSE IF space.kind = "Box" THEN Size(Prod(space.dims))
         ELSE IF space.kind = "Dict" THEN SumSizes(space.spaces, number_of_elements)
         ELSE NotSupported
    ELSE NotSupported

\* the spaces the resolver is called with
MaxDim == 3
MaxDiscrete == 3
Libs == {"gym", "gymnasium"}
\* sequences of at most two dimensions
DimSeqs == {<<>>} \cup {<<d>> : d \in 1 .. MaxDim}
               \cup {<<d, e>> : d \in 1 .. MaxDim, e \in 1 .. MaxDim}
Scalars ==
    {Object("int", "", n, <<>>, <<>>) : n \in 0 .. MaxDim}
        \cup {Object("float", "", v, <<>>, <<>>) :
                  v \in {2 * One, (5 * One) \div 2, -((3 * One) \div 2)}}
Sequences ==
    {Object(kind, "", 0, dims, <<>>) : kind \in {"tuple", "list"}, dims \in DimSeqs}
Discretes == {Object("Discrete", lib, n, <<>>, <<>>) : lib \in Libs, n \in 1 .. MaxDiscrete}
Boxes == {Object("Box", lib, 0, dims, <<>>) : lib \in Libs, dims \in DimSeqs}
\* objects that are no int, float, tuple or list and no supported space
Unsupported ==
    {Object("MultiDiscrete", lib, 0, <<2, 3>>, <<>>) : lib \in Libs}
        \cup {Object(kind, "", 0, <<>>, <<>>) : kind \in {"bool", "str", "NoneType"}}
\* the children of the Dict spaces: supported and unsupported spaces, and a Dict
DictChildren ==
    { Object("Discrete", "gymnasium", MaxDiscrete, <<>>, <<>>),
      Object("Box", "gymnasium", 0, <<2, MaxDim>>, <<>>),
      Object("MultiDiscrete", "gymnasium", 0, <<2, 3>>, <<>>),
      Object("Dict", "gymnasium", 0, <<>>,
             << Object("Discrete", "gym", MaxDiscrete, <<>>, <<>>),
                Object("Box", "gym", 0, <<MaxDim>>, <<>>) >>) }
Dicts ==
    {Object("Dict", lib, 0, <<>>, spaces) :
         lib \in Libs,
         spaces \in {<<>>} \cup {<<c>> : c \in DictChildren}
                           \cup {<<c, e>> : c \in DictChildren, e \in DictChildren}}
Spaces == Scalars \cup Sequences \cup Discretes \cup Boxes \cup Unsupported \cup Dicts

\* one call of _get_space_size
GetSpaceSize ==
    /\ \E space \in Spaces, number_of_elements \in BOOLEAN :
           pure' = Some([op |-> "_get_space_size", space |-> space,
                         number_of_elements |-> number_of_elements,
                         result |-> get_space_size(space, number_of_elements)])
    /\ UNCHANGED <<gvars, jvars, last_returned, threads>>
SNext == GetSpaceSize

(***************************************************************************)
(* GaussianMixin.atanh and GaussianMixin.inverse_tanh, called on one       *)
(* element.                                                                *)
(***************************************************************************)
\* the arguments of inverse_tanh: every number of [-1, 1], and numbers outside
UnitInterval == -One .. One
OutsideUnit == {-2 * One, -One - 1, One + 1, 2 * One}
\* the arguments of tanh for the round trip: every number of (-3, 3)
RoundTripArgs == (-3 * One + 1) .. (3 * One - 1)

InverseTanhCall ==
    /\ pure = None
    /\ \E y \in UnitInterval \cup OutsideUnit :
           pure' = Some([op |-> "inverse_tanh", arg |-> Fin(y),
                         result |-> inverse_tanh(Fin(y))])
    /\ UNCHANGED <<gvars, jvars, last_returned, threads>>
AtanhCall ==
    /\ pure = None
    /\ \E y \in UnitInterval :
           pure' = Some([op |-> "atanh", arg |-> Fin(y), result |-> atanh(Fin(y))])
    /\ UNCHANGED <<gvars, jvars, last_returned, threads>>
\* atanh(torch.tanh(x))
AtanhOfTanhCall ==
    /\ pure = None
    /\ \E x \in RoundTripArgs :
           pure' = Some([op |-> "atanh(tanh)", arg |-> Fin(x),
                         result |-> atanh(Tanh(Fin(x)))])
    /\ UNCHANGED <<gvars, jvars, last_returned, threads>>
\* one call, of one of the two functions
TNext == InverseTanhCall \/ AtanhCall \/ AtanhOfTanhCall

(***************************************************************************)
(* The specifications: Spec exercises a GaussianMixin, SpecModel the jax   *)
(* Model, SpecHistory a GaussianMixin with the last returning call kept    *)
(* aside, SpecThreads two threads in act, SpecSpace _get_space_size and    *)
(* SpecTanh atanh and inverse_tanh; what a specification does not exercise *)
(* is constructed and left alone.                                          *)
(***************************************************************************)
vars == <<gvars, jvars, xvars>>

\* a model without state and no call made yet
ModelIdle ==
    /\ state_dict = [m \in Models |-> None]
    /\ heap = <<>>
    /\ reader = None
    /\ soft_updates = 0
    /\ initialized = {}
    /\ jret = NoCall
\* no thread in a call, no function called
NoThread ==
    [pc |-> "idle", overlapped |-> FALSE, inputs |-> None, log_std |-> None,
     built |-> None, sampled_from |-> None, scored_with |-> None, sample |-> None,
     density |-> None, raised |-> "", actions |-> None, log_prob |-> None]
OthersIdle ==
    /\ last_returned = None
    /\ threads = <<NoThread, NoThread>>
    /\ pure = None

\* a constructed GaussianMixin of every configuration, and models without state
GInit ==
    \E space \in ActionSpaces, clip_actions \in BOOLEAN, clip_log_std \in BOOLEAN,
       range \in LogStdRanges, reduction \in Reductions :
        /\ GaussianInit(space, clip_actions, clip_log_std, range[1], range[2], reduction)
        /\ module_paths = [m \in Models |-> ParamPaths]
        /\ ModelIdle
        /\ OthersIdle

\* constructed models of every structure (lines 88-89: no state yet), and a
\* GaussianMixin
JInit ==
    \E paths \in [Models -> Structures] :
        /\ module_paths = paths
        /\ ModelIdle
        /\ OthersIdle
        /\ GaussianInit(IntSpace(1), FALSE, TRUE, Fin(-2 * One), Fin(One), "sum")

\* a GaussianMixin over a Box space, with and without the clipping of the
\* actions and of the log-std, for the comparison of a call with the last
\* call that returned
HInit ==
    \E clip_actions \in BOOLEAN, clip_log_std \in BOOLEAN :
        /\ GaussianInit(Box(<<Fin(-2 * One), NInf>>, <<Fin(3 * One), PInf>>),
                        clip_actions, clip_log_std, Fin(-2 * One), Fin(One), "sum")
        /\ module_paths = [m \in Models |-> ParamPaths]
        /\ ModelIdle
        /\ OthersIdle

\* a GaussianMixin over a Box space, with and without the clipping of the
\* actions, that two threads share
CInit ==
    \E clip_actions \in BOOLEAN :
        /\ GaussianInit(Box(<<Fin(-2 * One), NInf>>, <<Fin(3 * One), PInf>>),
                        clip_actions, TRUE, Fin(-2 * One), Fin(One), "sum")
        /\ module_paths = [m \in Models |-> ParamPaths]
        /\ ModelIdle
        /\ OthersIdle

\* a model constructed, _get_space_size not called yet
SInit ==
    /\ GaussianInit(IntSpace(1), FALSE, TRUE, Fin(-2 * One), Fin(One), "sum")
    /\ module_paths = [m \in Models |-> ParamPaths]
    /\ ModelIdle
    /\ OthersIdle

\* a mixin constructed, its static methods not called yet
TInit ==
    /\ GaussianInit(IntSpace(1), FALSE, TRUE, Fin(-2 * One), Fin(One), "sum")
    /\ module_paths = [m \in Models |-> ParamPaths]
    /\ ModelIdle
    /\ OthersIdle

Spec == GInit /\ [][GNext]_vars
SpecTanh == TInit /\ [][TNext]_vars
SpecSpace == SInit /\ [][SNext]_vars
SpecThreads == CInit /\ [][CNext]_vars
SpecHistory == HInit /\ [][HNext]_vars
SpecModel == JInit /\ [][JNext]_vars

(***************************************************************************)
(* Properties of GaussianMixin, checked under Spec.                        *)
(***************************************************************************)
\* the last call was an act that returned
ActReturned == ret.op = "act" /\ ~ret.raised
\* the stored bounds are ordered in every action dimension
BoundsOrdered ==
    \A d \in DOMAIN g_clip_actions_min[1].data :
        FLe(g_clip_actions_min[1].data[d], g_clip_actions_max[1].data[d])
\* element i of tensor t lies within the stored bounds of its column
WithinBounds(t, i) ==
    /\ FLe(g_clip_actions_min[1].data[ColOf(i, Cols(t.shape))], t.data[i])
    /\ FLe(t.data[i], g_clip_actions_max[1].data[ColOf(i, Cols(t.shape))])

\* C1: with clip_actions over a gymnasium space whose stored bounds are
\* ordered, every action an act call returns lies between the stored minimum
\* and maximum of its dimension, for every mean, log-std and noise.
ClippedActionsWithinBounds ==
    (ActReturned /\ g_clip_actions /\ BoundsOrdered)
        => \A i \in DOMAIN ret.actions[1].data : WithinBounds(ret.actions[1], i)
\* an act on a clipped model returned actions, one of them saturated at the
\* stored maximum and another strictly inside the bounds
ClippedActionsWitness ==
    /\ ActReturned /\ g_clip_actions /\ BoundsOrdered
    /\ \E i \in DOMAIN ret.actions[1].data :
           ret.actions[1].data[i] =
               g_clip_actions_max[1].data[ColOf(i, Cols(ret.actions[1].shape))]
    /\ \E i \in DOMAIN ret.actions[1].data :
           /\ FLt(g_clip_actions_min[1].data[ColOf(i, Cols(ret.actions[1].shape))],
                  ret.actions[1].data[i])
           /\ FLt(ret.actions[1].data[i],
                  g_clip_actions_max[1].data[ColOf(i, Cols(ret.actions[1].shape))])

\* C2: with clip_actions off, an act on B samples of D actions returns actions
\* of shape (B, D) and a log_prob of shape (B, 1) under the reductions mean,
\* sum and prod, and of shape (B, D) under the reduction none.
OutputShapes ==
    (ActReturned /\ ~g_clip_actions) =>
        /\ ret.actions[1].shape = ret.inputs[1].mean_actions.shape
        /\ ret.actions[1].shape[2] = action_space.n
        /\ ret.log_prob[1].shape =
               IF g_reduction = "none" THEN ret.inputs[1].mean_actions.shape
               ELSE <<ret.inputs[1].mean_actions.shape[1], 1>>
\* an unclipped act on several samples of several actions returned a reduced
\* log_prob
OutputShapesWitness ==
    /\ ActReturned /\ ~g_clip_actions /\ g_reduction = "prod"
    /\ ret.actions[1].shape = <<MaxBatch, 2>>
    /\ ret.log_prob[1].shape = <<MaxBatch, 1>>

EntropyOfLastDistribution ==
    /\ ret.op = "__init__" => g_distribution = None
    /\ g_distribution = None =>
           get_entropy = [raised |-> FALSE, value |-> Some(Scalar(Fin(0)))]
    /\ ret.op = "act" =>
           /\ distribution = ret.constructed
           /\ get_entropy = [raised |-> FALSE,
                             value |-> Some(NormalEntropy(ret.constructed[1]))]
\* after an act on several samples the entropy has one finite, non-zero
\* element per sample and action
EntropyWitness ==
    /\ ret.op = "act"
    /\ get_entropy.value[1].shape = <<MaxBatch, action_space.n>>
    /\ \A i \in DOMAIN get_entropy.value[1].data :
           IsFin(get_entropy.value[1].data[i]) /\ get_entropy.value[1].data[i] # Fin(0)

\* C9: after an act on B samples of D actions get_log_std returns a tensor of
\* shape (B, D) whose every row is the recorded log-std, whether compute
\* returned a log-std per action, of shape (D,), or per sample, of shape (B, D).
LogStdBroadcast ==
    ret.op = "act" =>
        /\ ~get_log_std.raised
        /\ get_log_std.value[1].shape = ret.inputs[1].mean_actions.shape
        /\ \A i \in DOMAIN get_log_std.value[1].data :
               get_log_std.value[1].data[i] =
                   At(g_log_std[1], RowOf(i, action_space.n), ColOf(i, action_space.n))

\* C11: after construction with clip_actions over a gymnasium space every
\* stored bound is finite: an infinite low is stored as -1.0, an infinite high
\* as 1.0, a finite bound as it was given; the action space itself carries the
\* same bounds.
StoredBoundsFinite ==
    g_clip_actions =>
        /\ Len(g_clip_actions_min[1].data) = space_given.n
        /\ Len(g_clip_actions_max[1].data) = space_given.n
        /\ \A d \in 1 .. space_given.n :
               /\ IsFin(g_clip_actions_min[1].data[d])
               /\ IsFin(g_clip_actions_max[1].data[d])
               /\ g_clip_actions_min[1].data[d] =
                      IF IsInf(space_given.low[d]) THEN Fin(-One) ELSE space_given.low[d]
               /\ g_clip_actions_max[1].data[d] =
                      IF IsInf(space_given.high[d]) THEN Fin(One) ELSE space_given.high[d]
        /\ action_space.low = g_clip_actions_min[1].data
        /\ action_space.high = g_clip_actions_max[1].data
\* a space given with an infinite low, an infinite high and finite bounds was
\* stored, and an act rescaled its actions with the stored bounds
StoredBoundsWitness ==
    /\ g_clip_actions
    /\ \E d \in 1 .. space_given.n : space_given.low[d] = NInf /\ space_given.high[d] = PInf
    /\ \E d \in 1 .. space_given.n : IsFin(space_given.low[d]) /\ IsFin(space_given.high[d])
    /\ ActReturned
    /\ \A i \in DOMAIN ret.actions[1].data : IsFin(ret.actions[1].data[i])

\* the scale of the stored distribution is the exponential of the recorded
\* log-std, and the recorded log-std is what compute returned, clamped
\* element by element when clip_log_std is set
RecordedLogStdIsScale ==
    /\ g_distribution[1].scale =
           Expand(TMap(Exp, g_log_std[1]), g_distribution[1].loc.shape)
    /\ g_log_std[1] =
           IF g_clip_log_std
           THEN TMap(LAMBDA a : FClamp(a, g_log_std_min, g_log_std_max),
                     ret.inputs[1].log_std)
           ELSE ret.inputs[1].log_std
\* element i of the recorded log-std lies in [min_log_std, max_log_std]
InLogStdRange(i) ==
    /\ FLe(g_log_std_min, g_log_std[1].data[i])
    /\ FLe(g_log_std[1].data[i], g_log_std_max)

\* C14: after an act the recorded log-std is the log-std whose exponential is
\* the scale of the stored distribution; with clip_log_std it is the compute
\* output clamped, and every element of it that compute did not return as NaN
\* lies in [min_log_std, max_log_std] (a NaN stays NaN); without clip_log_std
\* it is the raw compute output.
RecordedLogStdClamped ==
    ret.op = "act" =>
        /\ RecordedLogStdIsScale
        /\ g_clip_log_std =>
               \A i \in DOMAIN g_log_std[1].data :
                   IF IsNaN(ret.inputs[1].log_std.data[i])
                   THEN IsNaN(g_log_std[1].data[i])
                   ELSE InLogStdRange(i)
\* an act clamped one element of the log-std into the range and recorded
\* another as the NaN that compute returned
RecordedLogStdWitness ==
    /\ ret.op = "act" /\ g_clip_log_std
    /\ \E i \in DOMAIN g_log_std[1].data :
           /\ g_log_std[1].data[i] # ret.inputs[1].log_std.data[i]
           /\ InLogStdRange(i)
    /\ \E i \in DOMAIN g_log_std[1].data : IsNaN(g_log_std[1].data[i])
\* C14 as stated: with clip_log_std the recorded log-std always lies in
\* [min_log_std, max_log_std].
RecordedLogStdAlwaysInRange ==
    ret.op = "act" =>
        /\ RecordedLogStdIsScale
        /\ g_clip_log_std => \A i \in DOMAIN g_log_std[1].data : InLogStdRange(i)

\* the sample the last act drew, and the log_prob an act with the same
\* distribution and the same taken actions returns when it draws the noise eps
SampleDrawn == RSample(ret.constructed[1], ret.inputs[1].noise)
LogProbWithNoise(eps) ==
    Reduce(LogProb(ret.constructed[1], RSample(ret.constructed[1], eps),
                   ret.inputs[1].taken_actions),
           ScaleActions(RSample(ret.constructed[1], eps)))

\* C15: when the inputs carry taken_actions the log_prob act returns is the
\* same whatever noise the sample is drawn with, with and without
\* clip_actions; the actions are always those of the fresh sample; without
\* taken_actions the log_prob is the log-density at the fresh sample before
\* the squashing.
LogProbOfTakenActions ==
    ActReturned =>
        /\ ret.actions[1] = ScaleActions(SampleDrawn)
        /\ ret.inputs[1].taken_actions # None =>
               \A eps \in NoiseTensors(ret.inputs[1].mean_actions.shape[1],
                                       ret.inputs[1].mean_actions.shape[2]) :
                   ret.log_prob[1] = LogProbWithNoise(eps)
        /\ ret.inputs[1].taken_actions = None =>
               ret.log_prob[1] =
                   Reduce(NormalLogProb(ret.constructed[1], SampleDrawn), ret.actions[1])
\* a clipped act returned a finite log_prob of taken actions that is not the
\* log-density at its sample, and actions that are not the taken actions
LogProbOfTakenActionsWitness ==
    /\ ActReturned /\ g_clip_actions
    /\ ret.inputs[1].taken_actions # None
    /\ ret.actions[1] # ret.inputs[1].taken_actions[1]
    /\ \A i \in DOMAIN ret.log_prob[1].data : IsFin(ret.log_prob[1].data[i])
    /\ ret.log_prob[1] #
           Reduce(NormalLogProb(ret.constructed[1], SampleDrawn), ret.actions[1])

(***************************************************************************)
(* Properties of the jax Model, checked under SpecModel.                   *)
(***************************************************************************)
\* the last call was an update_parameters that returned
UpdateReturned == jret.op = "update_parameters" /\ jret.raised = ""
HardUpdateReturned == UpdateReturned /\ jret.polyak = PolyakDen
SoftUpdateReturned == UpdateReturned /\ jret.polyak # PolyakDen

\* C3: after update_parameters with polyak = 1 the tree of self equals the
\* tree of the source exactly, self holds the very tree the source holds, and
\* the same call made again changes nothing.
HardUpdateCopies ==
    HardUpdateReturned =>
        /\ ParamsOf(jret.m) = jret.source_before
        /\ ParamsOf(jret.m) = ParamsOf(jret.src)
        /\ state_dict[jret.m][1].params = jret.source_state_before[1].params
        /\ UpdateParameters(jret.m, jret.src, PolyakDen) =
               [raised |-> "", state_dict |-> state_dict, heap |-> heap]
\* a hard update replaced a tree of self that differed from the source's
HardUpdateWitness ==
    /\ HardUpdateReturned /\ jret.m # jret.src
    /\ jret.own_before # jret.source_before
    /\ DOMAIN jret.own_before[1] = DOMAIN jret.source_before[1]
    /\ ParamsOf(jret.m) = jret.source_before

\* C4: after update_parameters with polyak < 1 on trees of the same structure
\* every leaf of self is polyak * source + (1 - polyak) * own, computed from
\* the values before the call; with polyak = 0 the tree of self is unchanged.
SoftUpdateInterpolates ==
    SoftUpdateReturned =>
        /\ DOMAIN ParamsOf(jret.m)[1] = DOMAIN jret.own_before[1]
        /\ \A path \in DOMAIN jret.own_before[1] :
               PolyakDen * ParamsOf(jret.m)[1][path] =
                   jret.polyak * jret.source_before[1][path]
                   + (PolyakDen - jret.polyak) * jret.own_before[1][path]
        /\ jret.polyak = 0 => ParamsOf(jret.m) = jret.own_before
\* a soft update with 0 < polyak < 1 moved every leaf of self strictly
\* between its old value and the source's
SoftUpdateWitness ==
    /\ SoftUpdateReturned /\ jret.m # jret.src
    /\ jret.polyak > 0
    /\ \A path \in DOMAIN jret.own_before[1] :
           /\ ParamsOf(jret.m)[1][path] # jret.own_before[1][path]
           /\ ParamsOf(jret.m)[1][path] # jret.source_before[1][path]

\* C5: update_parameters on trees of different structure fails and leaves
\* the state of self unchanged, for every polyak, 1 included.
StructureMismatchFails ==
    (/\ jret.op = "update_parameters"
     /\ jret.own_before # None /\ jret.source_before # None
     /\ DOMAIN jret.own_before[1] # DOMAIN jret.source_before[1])
        => jret.raised # "" /\ state_dict[jret.m] = jret.state_before

\* C6: a parameter tree is never changed in place: what a reader that holds a
\* reference to a tree sees stays what it saw when it took the reference, and
\* an update leaves the tree of the source as it was.
TreesNeverMutated ==
    /\ reader # None => heap[reader[1].ref] = reader[1].seen
    /\ UpdateReturned =>
           /\ heap[jret.source_state_before[1].params] = jret.source_before[1]
           /\ heap[jret.state_before[1].params] = jret.own_before[1]
\* a soft update replaced the tree of self while a reader held it
TreesNeverMutatedWitness ==
    /\ SoftUpdateReturned /\ jret.polyak > 0 /\ reader # None
    /\ reader[1].ref = jret.state_before[1].params
    /\ state_dict[jret.m][1].params # reader[1].ref
    /\ ParamsOf(jret.m)[1] # reader[1].seen

FailedActOverwrites ==
    (ret.op = "act" /\ ret.raised) =>
        /\ g_log_std = Some(ClampLogStd(ret.inputs[1].log_std))
        /\ g_num_samples = Some(ret.inputs[1].mean_actions.shape[1])
        /\ g_distribution = ret.constructed
        /\ distribution = ret.constructed
        /\ get_entropy = [raised |-> FALSE,
                          value |-> Some(NormalEntropy(ret.constructed[1]))]
        /\ get_log_std = [raised |-> FALSE,
                          value |-> Some(Repeat(ClampLogStd(ret.inputs[1].log_std),
                                                ret.inputs[1].mean_actions.shape[1]))]
\* an act raised after an act that returned, and the log-std, the sample
\* count and the distribution all differ from what the returned call left
FailedActWitness ==
    /\ ret.op = "act" /\ ret.raised
    /\ last_returned # None
    /\ last_returned[1].log_std # g_log_std
    /\ last_returned[1].num_samples # g_num_samples
    /\ last_returned[1].distribution # g_distribution
    /\ distribution # last_returned[1].distribution

(***************************************************************************)
(* Properties of two threads in act, checked under SpecThreads.            *)
(***************************************************************************)
\* the sample count of the call of thread t
CountOf(t) == threads[t].inputs[1].mean_actions.shape[1]
\* the sample a call draws from the distribution it constructed itself
OwnSample(t) == RSample(threads[t].built[1], NoiseFor(threads[t].built[1]))
\* the transient state is wholly what the call of thread t recorded
TransientOf(t) ==
    /\ g_log_std = threads[t].log_std
    /\ g_num_samples = Some(CountOf(t))
    /\ g_distribution = threads[t].built

\* C16: an act call that did not run while the other thread was inside act
\* draws its sample and computes its log_prob from the distribution it
\* constructed itself, returns the outputs of its own inputs, and from its
\* construction of the distribution until the other thread enters act the
\* transient state is wholly its own; after serialized calls the transient
\* state is wholly that of one call.  (That interleaved calls mix the state
\* is the reachable state MixedCallsWitness.)
SerializedCallsOwnState ==
    /\ \A t \in Threads :
           (threads[t].pc \in {"sample", "log_prob", "finish"} /\ ~threads[t].overlapped)
               => TransientOf(t)
    /\ \A t \in Threads :
           (threads[t].pc = "done" /\ ~threads[t].overlapped) =>
               /\ threads[t].sampled_from = threads[t].built
               /\ threads[t].scored_with = threads[t].built
               /\ threads[t].raised \in {"", "ValueError"}
               /\ threads[t].actions = Some(ScaleActions(OwnSample(t)))
               /\ threads[t].log_prob =
                      Some(Reduce(LogProb(threads[t].built[1], OwnSample(t),
                                          threads[t].inputs[1].taken_actions),
                                  threads[t].actions[1]))
               /\ threads[Other(t)].pc = "idle" => TransientOf(t)
    /\ (\A t \in Threads : threads[t].pc = "done" /\ ~threads[t].overlapped)
           => \E t \in Threads : TransientOf(t)
\* two interleaved calls are over: the recorded log-std is that of one call,
\* the sample count and the distribution are those of the other, and the first
\* call drew its sample from the distribution of the other and returned
\* actions that are not those of its own distribution
MixedCallsWitness ==
    \E a \in Threads :
        /\ threads[a].pc = "done" /\ threads[Other(a)].pc = "done"
        /\ g_log_std = threads[a].log_std
        /\ threads[a].log_std # threads[Other(a)].log_std
        /\ g_num_samples = Some(CountOf(Other(a)))
        /\ CountOf(a) # CountOf(Other(a))
        /\ g_distribution = threads[Other(a)].built
        /\ threads[a].sampled_from = threads[Other(a)].built
        /\ threads[a].sampled_from # threads[a].built
        /\ threads[a].raised = ""
        /\ threads[a].actions # Some(ScaleActions(OwnSample(a)))

(***************************************************************************)
(* Properties of _get_space_size, checked under SpecSpace.                 *)
(***************************************************************************)
\* the space, the flag and the result of the last call
Resolved == pure[1].result
\* the product of a sequence of at most two dimensions
ProductOf(dims) ==
    IF Len(dims) = 0 THEN 1 ELSE IF Len(dims) = 1 THEN dims[1] ELSE dims[1] * dims[2]
\* the laws of the resolver for sequences, Discrete, Box, Dict and the
\* objects it does not support
ResolverLaws ==
    LET space == pure[1].space
        flag == pure[1].number_of_elements
    IN  /\ Resolved = get_space_size(space, flag)
        /\ space.kind \in {"tuple", "list", "Box"} => Resolved = Size(ProductOf(space.dims))
        /\ space.kind = "Discrete" => Resolved = Size(IF flag THEN space.value ELSE 1)
        /\ space.kind = "Dict" =>
               IF \E k \in DOMAIN space.spaces : get_space_size(space.spaces[k], flag).raised
               THEN Resolved = NotSupported
               ELSE Resolved =
                        Size(IF Len(space.spaces) = 0 THEN 0
                             ELSE IF Len(space.spaces) = 1
                             THEN get_space_size(space.spaces[1], flag).value[1]
                             ELSE get_space_size(space.spaces[1], flag).value[1]
                                  + get_space_size(space.spaces[2], flag).value[1])
        /\ space.kind \in {"MultiDiscrete", "bool", "str", "NoneType"} =>
               Resolved = NotSupported

\* C12: _get_space_size is a function of its arguments that returns an
\* integer scalar itself and a float scalar cast to an integer (truncated
\* towards zero), the product of the dimensions for a sequence or a Box, n or
\* 1 for Discrete(n) according to the flag, for a Dict the sum of the sizes of
\* its children under the same flag, and fails for every other object (and
\* for a Dict with such a child).
SpaceSizeResolved ==
    pure # None =>
        /\ ResolverLaws
        /\ pure[1].space.kind = "int" => Resolved = Size(pure[1].space.value)
        /\ pure[1].space.kind = "float" =>
               /\ ~Resolved.raised
               /\ Abs(Resolved.value[1] * One) <= Abs(pure[1].space.value)
               /\ Abs(pure[1].space.value - Resolved.value[1] * One) < One
\* a Dict of a Discrete space and a nested Dict was resolved without counting
\* the elements: 1 for each Discrete space plus the size of the Box
SpaceSizeWitness ==
    /\ pure # None
    /\ pure[1].space.kind = "Dict" /\ ~pure[1].number_of_elements
    /\ Len(pure[1].space.spaces) = 2
    /\ pure[1].space.spaces[1].kind = "Discrete"
    /\ pure[1].space.spaces[2].kind = "Dict"
    /\ Resolved = Size(2 + MaxDim)
\* C12 as stated: a scalar resolves to itself.
ScalarResolvesToItself ==
    pure # None =>
        /\ ResolverLaws
        /\ pure[1].space.kind = "int" => Resolved = Size(pure[1].space.value)
        /\ pure[1].space.kind = "float" =>
               ~Resolved.raised /\ Resolved.value[1] * One = pure[1].space.value

(***************************************************************************)
(* Properties of atanh and inverse_tanh, checked under SpecTanh.           *)
(***************************************************************************)
\* the tolerance of the round trip: the tabulated tanh and log carry three
\* decimals, and atanh amplifies an error at tanh(3) a hundredfold
RoundTripTol == One \div 10

\* C13: inverse_tanh of a number of [-1, 1], -1 and 1 included, is finite: it
\* is atanh of the number clamped into [-1 + eps, 1 - eps]; and
\* atanh(tanh(x)) is x within the tolerance for every x of (-3, 3).
InverseTanhFinite ==
    pure # None =>
        /\ (pure[1].op = "inverse_tanh" /\ Abs(pure[1].arg[2]) <= One) =>
               /\ IsFin(pure[1].result)
               /\ pure[1].result =
                      atanh(FClamp(pure[1].arg, Fin(-One + MachineEps),
                                   Fin(One - MachineEps)))
               /\ SignOf(pure[1].result) = SignOf(pure[1].arg)
        /\ pure[1].op = "atanh(tanh)" =>
               /\ IsFin(pure[1].result)
               /\ Abs(pure[1].result[2] - pure[1].arg[2]) <= RoundTripTol
\* inverse_tanh was called on the boundary 1, where atanh itself is infinite,
\* and returned a finite number
InverseTanhWitness ==
    /\ pure # None
    /\ pure[1].op = "inverse_tanh"
    /\ pure[1].arg = Fin(One)
    /\ atanh(pure[1].arg) = PInf
    /\ IsFin(pure[1].result)
    /\ pure[1].result[2] > 3 * One

=============================================================================
